---- MODULE Spec2Model ----
\* Session / token lifecycle of market_price_edpgw_authentication.py:
\* the main thread (initial token, renewal loop) and the WebSocket event
\* thread (on_open, on_message, on_error, on_close) over the module globals.
EXTENDS Integers, Sequences, FiniteSets, TLC

\* ---------------------------------------------------------------- bounds
MaxIssue == 3       \* credentials the token endpoint hands out in one run
MaxExpiry == 2      \* expires_in ranges over 1..MaxExpiry
MaxUrl == 1         \* redirect targets 1..MaxUrl besides auth_url
MaxMsgs == 2        \* message objects in one inbound frame

\* ------------------------------------------------------------- constants
None == 0                       \* Python None / '' (both falsy)
auth_url == 0                   \* the configured token endpoint
NoStatus == -1                  \* no response received yet
ExceptionStatus == 0            \* requests.post raised RequestException
NoLocation == -1                \* a response without a Location header
NoDomain == "-"                 \* a message object without a 'Domain' key
ric == "/TRI.N"
service == "ELEKTRON_DD"

URLs == 0..MaxUrl
RedirectCodes == {301, 302, 307, 308}
StatusCodes == {200, 301, 302, 307, 308, 400, 401, 403, 451, 500}

VARIABLES
    pc,                     \* main thread: the line it is at
    call,                   \* arguments of the running get_sts_token activation
    sts_token,
    refresh_token,
    expire_time,
    original_expire_time,
    web_socket_open,
    logged_in,
    wst,                    \* the thread running web_socket_app.run_forever
    conn,                   \* the socket held by web_socket_app
    inbox,                  \* the frame read from the socket that on_message
                            \* is about to handle, <<>> when there is none
    out,                    \* the frames the step just taken transmitted
    wait,                   \* the argument of the time.sleep in progress
    issued,                 \* number of credentials the endpoint has issued
    last_cred,              \* history: the credential issued last and the
                            \* grant that obtained it
    last_status,            \* history: status of the last response of the
                            \* get_sts_token call whose result is not yet
                            \* examined by the main loop
    last_location,          \* history: the Location header of that response
    login_acked,            \* history: an accepted login response was processed
    login_rejected,         \* history: a rejected login response was processed
    cyc                     \* history of the current renewal cycle

vars == <<pc, call, sts_token, refresh_token, expire_time, original_expire_time,
          web_socket_open, logged_in, wst, conn, inbox, out, wait, issued,
          last_cred, last_status, last_location, login_acked, login_rejected, cyc>>

\* ------------------------------------------------------- token endpoint
\* The n-th credential: access token n, refresh token 100 + n.
AccessTok(n) == n
RefreshTok(n) == 100 + n

\* Every response requests.post can produce when n credentials were issued.
Responses(n) ==
    { [exception |-> TRUE, status_code |-> ExceptionStatus, Location |-> NoLocation,
       access_token |-> None, refresh_token |-> None, expires_in |-> 0] }
    \cup
    { [exception |-> FALSE, status_code |-> 200, Location |-> NoLocation,
       access_token |-> AccessTok(n + 1), refresh_token |-> RefreshTok(n + 1),
       expires_in |-> e] : e \in 1..MaxExpiry }
    \cup
    { [exception |-> FALSE, status_code |-> s, Location |-> l,
       access_token |-> None, refresh_token |-> None, expires_in |-> 0]
        : s \in RedirectCodes, l \in URLs \cup {NoLocation} }
    \cup
    { [exception |-> FALSE, status_code |-> s, Location |-> NoLocation,
       access_token |-> None, refresh_token |-> None, expires_in |-> 0]
        : s \in StatusCodes \ ({200} \cup RedirectCodes) }

\* call.arg is the argument the main loop passed; tok and url are those of the
\* activation that is running now.
NoCall == [arg |-> None, tok |-> None, url |-> auth_url]

TopCall(current_refresh_token) ==
    [arg |-> current_refresh_token, tok |-> current_refresh_token, url |-> auth_url]

\* the grant_type field of the request's data
GrantType(current_refresh_token) ==
    IF current_refresh_token = None THEN "password" ELSE "refresh_token"

NoCred == [access_token |-> None, refresh_token |-> None, expires_in |-> 0,
           grant |-> "-"]

Return(a, r, e) ==
    [kind |-> "return", access_token |-> a, refresh_token |-> r,
     expires_in |-> e, tok |-> None, url |-> auth_url]

Recurse(tok, url) ==
    [kind |-> "call", access_token |-> None, refresh_token |-> None,
     expires_in |-> 0, tok |-> tok, url |-> url]

Raise ==
    [kind |-> "raise", access_token |-> None, refresh_token |-> None,
     expires_in |-> 0, tok |-> None, url |-> auth_url]

\* get_sts_token with the 400/401 branch retrying with the password whether or
\* not a refresh token was used
get_sts_token_always_fallback(current_refresh_token, url, r) ==
    IF r.exception THEN Return(None, None, None)
    ELSE IF r.status_code = 200
        THEN Return(r.access_token, r.refresh_token, r.expires_in)
    ELSE IF r.status_code \in RedirectCodes
        THEN IF r.Location = NoLocation
                THEN Raise
                ELSE Recurse(current_refresh_token, r.Location)
    ELSE IF r.status_code = 400 \/ r.status_code = 401
        THEN Recurse(None, auth_url)
    ELSE IF r.status_code = 403 \/ r.status_code = 451
        THEN Return(None, None, None)
    ELSE Recurse(current_refresh_token, auth_url)

\* get_sts_token without the 403/451 branch: those statuses are retried
get_sts_token_retry_forbidden(current_refresh_token, url, r) ==
    IF r.exception THEN Return(None, None, None)
    ELSE IF r.status_code = 200
        THEN Return(r.access_token, r.refresh_token, r.expires_in)
    ELSE IF r.status_code \in RedirectCodes
        THEN IF r.Location = NoLocation
                THEN Raise
                ELSE Recurse(current_refresh_token, r.Location)
    ELSE IF r.status_code = 400 \/ r.status_code = 401
        THEN IF current_refresh_token # None
                THEN Recurse(None, auth_url)
                ELSE Return(None, None, None)
    ELSE Recurse(current_refresh_token, auth_url)

\* One activation of get_sts_token, given the response r to its POST:
\* it returns a triple, calls itself again, or lets an exception escape.
get_sts_token(current_refresh_token, url, r) ==
    IF r.exception THEN Return(None, None, None)
    ELSE IF r.status_code = 200
        THEN Return(r.access_token, r.refresh_token, r.expires_in)
    ELSE IF r.status_code \in RedirectCodes
        THEN IF r.Location = NoLocation
                THEN Raise      \* r.headers['Location'] raises KeyError
                ELSE Recurse(current_refresh_token, r.Location)
    ELSE IF r.status_code = 400 \/ r.status_code = 401
        THEN IF current_refresh_token # None
                THEN Recurse(None, auth_url)
                ELSE Return(None, None, None)
    ELSE IF r.status_code = 403 \/ r.status_code = 451
        THEN Return(None, None, None)
    ELSE Recurse(current_refresh_token, auth_url)

\* --------------------------------------------------------------- frames
PongFrame == [kind |-> "Pong", ID |-> 0, AuthenticationToken |-> None,
              Refresh |-> "omitted", Name |-> "-", Service |-> "-"]

\* send_login_request's login_json
LoginFrame(auth_token, is_refresh_token) ==
    [kind |-> "Login", ID |-> 1, AuthenticationToken |-> auth_token,
     Refresh |-> IF is_refresh_token THEN "false" ELSE "omitted",
     Name |-> "-", Service |-> "-"]

\* send_market_price_request's mp_req_json
MarketPriceFrame(ric_name) ==
    [kind |-> "Request", ID |-> 2, AuthenticationToken |-> None,
     Refresh |-> "omitted", Name |-> ric_name, Service |-> service]

\* ------------------------------------------------------ inbound messages
Messages ==
    { [Type |-> "Ping", Domain |-> NoDomain, Stream |-> "-", Data |-> "-"],
      [Type |-> "Update", Domain |-> NoDomain, Stream |-> "-", Data |-> "-"],
      [Type |-> "Refresh", Domain |-> "Login", Stream |-> "Open", Data |-> "Ok"],
      [Type |-> "Refresh", Domain |-> "Login", Stream |-> "Closed", Data |-> "Ok"],
      [Type |-> "Refresh", Domain |-> "Login", Stream |-> "Open", Data |-> "Suspect"],
      [Type |-> "Refresh", Domain |-> "MarketPrice", Stream |-> "Open", Data |-> "Ok"],
      [Type |-> "Refresh", Domain |-> NoDomain, Stream |-> "Open", Data |-> "Ok"] }

Frames == UNION { [1..n -> Messages] : n \in 1..MaxMsgs }

\* The handler's effect is folded over a record: the login flag, the frames
\* it sends, and whether sys.exit(1) was raised.
\* send_market_price_request sending its request twice
send_market_price_request_twice(st, ric_name) ==
    [st EXCEPT !.out = Append(Append(@, MarketPriceFrame(ric_name)),
                              MarketPriceFrame(ric_name))]

send_market_price_request(st, ric_name) ==
    [st EXCEPT !.out = Append(@, MarketPriceFrame(ric_name))]

\* process_login_response setting the flag before it looks at the state
process_login_response_flag_first(st, message_json) ==
    IF message_json.Stream # "Open" \/ message_json.Data # "Ok"
        THEN [st EXCEPT !.logged_in = TRUE, !.exit = TRUE]
        ELSE send_market_price_request([st EXCEPT !.logged_in = TRUE], ric)

process_login_response(st, message_json) ==
    IF message_json.Stream # "Open" \/ message_json.Data # "Ok"
        THEN [st EXCEPT !.exit = TRUE]
        ELSE send_market_price_request([st EXCEPT !.logged_in = TRUE], ric)

\* process_message answering a Ping only once logged in
process_message_pong_when_logged_in(st, message_json) ==
    IF message_json.Type = "Refresh"
        THEN IF message_json.Domain # NoDomain /\ message_json.Domain = "Login"
                THEN process_login_response(st, message_json)
                ELSE st
    ELSE IF message_json.Type = "Ping" /\ st.logged_in
        THEN [st EXCEPT !.out = Append(@, PongFrame)]
    ELSE st

process_message(st, message_json) ==
    IF message_json.Type = "Refresh"
        THEN IF message_json.Domain # NoDomain /\ message_json.Domain = "Login"
                THEN process_login_response(st, message_json)
                ELSE st
    ELSE IF message_json.Type = "Ping"
        THEN [st EXCEPT !.out = Append(@, PongFrame)]
    ELSE st

RECURSIVE on_message(_, _)
on_message(st, message_json) ==
    IF message_json = <<>> \/ st.exit
        THEN st
        ELSE on_message(process_message(st, Head(message_json)),
                        Tail(message_json))

\* ------------------------------------------------------------ main loop
\* A handler of the event thread runs to completion once it is dispatched:
\* the main thread is not scheduled in the middle of on_message.
HandlerRunning == wst = "on_message"

\* the sleep rounded to the nearest second instead of truncated
SleepTime_rounded(e) == (9 * e + 5) \div 10

\* time.sleep(int(float(expire_time) * 0.90))
SleepTime(e) == (9 * e) \div 10

\* the comparison noticing only a longer lifetime
ExpiryChanged_only_longer(e, o) == e > o

\* int(expire_time) != int(original_expire_time)
ExpiryChanged(e, o) == e # o

Init ==
    /\ pc = "L419"
    /\ call = TopCall(None)
    /\ sts_token = None
    /\ refresh_token = None
    /\ expire_time = 0
    /\ original_expire_time = 0
    /\ web_socket_open = FALSE
    /\ logged_in = FALSE
    /\ wst = "unstarted"
    /\ conn = "none"
    /\ inbox = <<>>
    /\ out = <<>>
    /\ wait = 0
    /\ issued = 0
    /\ last_cred = NoCred
    /\ last_status = NoStatus
    /\ last_location = NoLocation
    /\ login_acked = FALSE
    /\ login_rejected = FALSE
    /\ cyc = [orig0 |-> 0, rexp |-> 0, pcalls |-> 0]

event_state == <<web_socket_open, logged_in, wst, conn, inbox, login_acked,
                 login_rejected>>

AfterCall(l) == CASE l = "L419" -> "L420" [] l = "L443" -> "L444" [] l = "L449" -> "L450"

\* One POST of the running get_sts_token call and what the call does with
\* the response.
HttpPost(r) ==
    /\ ~HandlerRunning
    /\ pc \in {"L419", "L443", "L449"}
    /\ LET o == get_sts_token(call.tok, call.url, r) IN
        \/ /\ o.kind = "call"
           /\ call' = [call EXCEPT !.tok = o.tok, !.url = o.url]
           /\ UNCHANGED <<pc, sts_token, refresh_token, expire_time, cyc>>
        \/ /\ o.kind = "return"
           /\ call' = NoCall
           /\ pc' = AfterCall(pc)
           /\ sts_token' = o.access_token
           /\ refresh_token' = o.refresh_token
           /\ expire_time' = o.expires_in
           /\ cyc' = IF pc = "L443" THEN [cyc EXCEPT !.rexp = o.expires_in]
                                    ELSE cyc
        \/ /\ o.kind = "raise"
           /\ call' = NoCall
           /\ pc' = "crashed"
           /\ UNCHANGED <<sts_token, refresh_token, expire_time, cyc>>
    /\ last_status' = IF r.exception THEN ExceptionStatus ELSE r.status_code
    /\ last_location' = r.Location
    /\ IF ~r.exception /\ r.status_code = 200
          THEN /\ issued' = issued + 1
               /\ last_cred' = [access_token |-> r.access_token,
                                refresh_token |-> r.refresh_token,
                                expires_in |-> r.expires_in,
                                grant |-> GrantType(call.tok)]
          ELSE UNCHANGED <<issued, last_cred>>
    /\ out' = <<>>
    /\ UNCHANGED <<original_expire_time, event_state, wait>>

\* requests.post answers with any response the endpoint can give
RequestsPost ==
    \E r \in Responses(issued) :
        /\ r.status_code = 200 => issued < MaxIssue
        /\ HttpPost(r)

\* startup without the check of line 420: the connection is created whatever
\* the initial acquisition returned
InitialTokenCheck_connect_anyway ==
    /\ ~HandlerRunning
    /\ pc = "L420"
    /\ original_expire_time' = expire_time
    /\ wst' = "connecting"
    /\ pc' = "L441"
    /\ last_status' = NoStatus
    /\ last_location' = NoLocation
    /\ out' = <<>>
    /\ UNCHANGED <<call, sts_token, refresh_token, expire_time, web_socket_open,
                   logged_in, conn, inbox, wait, issued, last_cred, login_acked,
                   login_rejected, cyc>>

\* lines 420-436
InitialTokenCheck ==
    /\ ~HandlerRunning
    /\ pc = "L420"
    /\ IF sts_token = None
          THEN /\ pc' = "exited"
               /\ UNCHANGED <<original_expire_time, wst>>
          ELSE /\ original_expire_time' = expire_time
               /\ wst' = "connecting"
               /\ pc' = "L441"
    /\ last_status' = NoStatus
    /\ last_location' = NoLocation
    /\ out' = <<>>
    /\ UNCHANGED <<call, sts_token, refresh_token, expire_time, web_socket_open,
                   logged_in, conn, inbox, wait, issued, last_cred, login_acked,
                   login_rejected, cyc>>

\* line 441: time.sleep is entered
Sleep ==
    /\ ~HandlerRunning
    /\ pc = "L441"
    /\ wait' = SleepTime(expire_time)
    /\ pc' = "sleeping"
    /\ out' = <<>>
    /\ UNCHANGED <<call, sts_token, refresh_token, expire_time,
                   original_expire_time, event_state, issued, last_cred,
                   last_status, last_location, cyc>>

\* lines 441-443: the sleep is over, the call with the stored refresh token
Wake ==
    /\ ~HandlerRunning
    /\ pc = "sleeping"
    /\ wait' = 0
    /\ call' = TopCall(refresh_token)
    /\ cyc' = [orig0 |-> original_expire_time, rexp |-> 0, pcalls |-> 0]
    /\ last_status' = NoStatus
    /\ last_location' = NoLocation
    /\ pc' = "L443"
    /\ out' = <<>>
    /\ UNCHANGED <<sts_token, refresh_token, expire_time, original_expire_time,
                   event_state, issued, last_cred>>

\* lines 444-449
RenewalCheck ==
    /\ ~HandlerRunning
    /\ pc = "L444"
    /\ IF sts_token = None
          THEN pc' = "exited" /\ UNCHANGED <<call, cyc>>
          ELSE IF ExpiryChanged(expire_time, original_expire_time)
                  THEN /\ call' = TopCall(None)
                       /\ cyc' = [cyc EXCEPT !.pcalls = @ + 1]
                       /\ pc' = "L449"
                  ELSE pc' = "L455" /\ UNCHANGED <<call, cyc>>
    /\ last_status' = NoStatus
    /\ last_location' = NoLocation
    /\ out' = <<>>
    /\ UNCHANGED <<sts_token, refresh_token, expire_time, original_expire_time,
                   event_state, wait, issued, last_cred>>

\* lines 450-452
ReacquireCheck ==
    /\ ~HandlerRunning
    /\ pc = "L450"
    /\ IF sts_token = None
          THEN pc' = "exited" /\ UNCHANGED original_expire_time
          ELSE pc' = "L455" /\ original_expire_time' = expire_time
    /\ last_status' = NoStatus
    /\ last_location' = NoLocation
    /\ out' = <<>>
    /\ UNCHANGED <<call, sts_token, refresh_token, expire_time, event_state,
                   wait, issued, last_cred, cyc>>

\* line 455
ReadLoggedIn ==
    /\ ~HandlerRunning
    /\ pc = "L455"
    /\ pc' = IF logged_in THEN "L456" ELSE "L441"
    /\ out' = <<>>
    /\ UNCHANGED <<call, sts_token, refresh_token, expire_time,
                   original_expire_time, event_state, wait, issued, last_cred,
                   last_status, last_location, cyc>>

\* line 456: web_socket_app.send raises when the socket is gone
SendRenewal ==
    /\ ~HandlerRunning
    /\ pc = "L456"
    /\ IF conn = "open"
          THEN /\ out' = <<LoginFrame(sts_token, TRUE)>>
               /\ pc' = "L441"
          ELSE /\ out' = <<>>
               /\ pc' = "crashed"
    /\ UNCHANGED <<call, sts_token, refresh_token, expire_time,
                   original_expire_time, event_state, wait, issued, last_cred,
                   last_status, last_location, cyc>>

\* the except clause without web_socket_app.close()
KeyboardInterrupt_without_close ==
    /\ ~HandlerRunning
    /\ pc \in {"L441", "sleeping", "L443", "L444", "L449", "L450", "L455", "L456"}
    /\ pc' = "interrupted"
    /\ call' = NoCall
    /\ wait' = 0
    /\ out' = <<>>
    /\ UNCHANGED <<sts_token, refresh_token, expire_time, original_expire_time,
                   event_state, issued, last_cred, last_status, last_location, cyc>>

\* lines 457-458: web_socket_app.close()
KeyboardInterrupt ==
    /\ ~HandlerRunning
    /\ pc \in {"L441", "sleeping", "L443", "L444", "L449", "L450", "L455", "L456"}
    /\ pc' = "interrupted"
    /\ call' = NoCall
    /\ wait' = 0
    /\ conn' = "closed"
    /\ wst' = IF wst \in {"connecting", "idle"} THEN "teardown" ELSE wst
    /\ out' = <<>>
    /\ UNCHANGED <<sts_token, refresh_token, expire_time, original_expire_time,
                   web_socket_open, logged_in, inbox, issued, last_cred,
                   last_status, last_location, login_acked, login_rejected, cyc>>

\* ---------------------------------------------------------- event thread
main_state == <<pc, call, sts_token, refresh_token, expire_time,
                original_expire_time, wait, issued, last_cred, last_status, last_location, cyc>>

\* on_open marking its login frame as a refresh
on_open_refresh_login ==
    /\ wst = "connecting"
    /\ conn' = "open"
    /\ web_socket_open' = TRUE
    /\ out' = <<LoginFrame(sts_token, TRUE)>>
    /\ wst' = "idle"
    /\ UNCHANGED <<main_state, logged_in, inbox, login_acked, login_rejected>>

on_open ==
    /\ wst = "connecting"
    /\ conn' = "open"
    /\ web_socket_open' = TRUE
    /\ out' = <<LoginFrame(sts_token, FALSE)>>
    /\ wst' = "idle"
    /\ UNCHANGED <<main_state, logged_in, inbox, login_acked, login_rejected>>

Accepted(m) ==
    m.Type = "Refresh" /\ m.Domain = "Login" /\ m.Stream = "Open" /\ m.Data = "Ok"

Rejected(m) ==
    m.Type = "Refresh" /\ m.Domain = "Login" /\ ~(m.Stream = "Open" /\ m.Data = "Ok")

\* the messages of a frame the handler gets to: up to the first rejected login
Reached(f) ==
    LET stop == {i \in 1..Len(f) : Rejected(f[i])} IN
    IF stop = {} THEN f
    ELSE SubSeq(f, 1, CHOOSE i \in stop : \A j \in stop : i <= j)

\* run_forever reads one frame from the socket and dispatches it
Receive(f) ==
    /\ wst = "idle"
    /\ conn = "open"
    /\ inbox' = f
    /\ wst' = "on_message"
    /\ out' = <<>>
    /\ UNCHANGED <<main_state, web_socket_open, logged_in, conn, login_acked,
                   login_rejected>>

\* on_message handles the frame. sys.exit(1) inside the handler ends this
\* thread only; whether run_forever tears the socket down on its way out
\* depends on the websocket-client release.
OnMessage ==
    /\ wst = "on_message"
    /\ LET st == on_message([logged_in |-> logged_in, out |-> <<>>, exit |-> FALSE],
                            inbox) IN
        /\ logged_in' = st.logged_in
        /\ out' = st.out
        /\ IF st.exit
              THEN \/ wst' = "teardown" /\ conn' = "closed"
                   \/ wst' = "dead" /\ conn' = conn
              ELSE wst' = "idle" /\ conn' = conn
    /\ inbox' = <<>>
    /\ login_acked' = (login_acked \/ \E i \in 1..Len(Reached(inbox)) : Accepted(inbox[i]))
    /\ login_rejected' = (login_rejected \/ \E i \in 1..Len(inbox) : Rejected(inbox[i]))
    /\ UNCHANGED <<main_state, web_socket_open>>

\* a transport error: on_error only prints, then run_forever tears down
on_error ==
    /\ wst \in {"connecting", "idle"}
    /\ conn' = "closed"
    /\ wst' = "teardown"
    /\ out' = <<>>
    /\ UNCHANGED <<main_state, web_socket_open, logged_in, inbox, login_acked,
                   login_rejected>>

\* the peer closes the connection
PeerClose ==
    /\ wst = "idle"
    /\ conn = "open"
    /\ conn' = "closed"
    /\ wst' = "teardown"
    /\ out' = <<>>
    /\ UNCHANGED <<main_state, web_socket_open, logged_in, inbox, login_acked,
                   login_rejected>>

on_close ==
    /\ wst = "teardown"
    /\ web_socket_open' = FALSE
    /\ wst' = "done"
    /\ out' = <<>>
    /\ UNCHANGED <<main_state, logged_in, conn, inbox, login_acked,
                   login_rejected>>

Next ==
    \/ RequestsPost
    \/ InitialTokenCheck
    \/ Sleep
    \/ Wake
    \/ RenewalCheck
    \/ ReacquireCheck
    \/ ReadLoggedIn
    \/ SendRenewal
    \/ KeyboardInterrupt
    \/ on_open
    \/ \E f \in Frames : Receive(f)
    \/ OnMessage
    \/ on_error
    \/ PeerClose
    \/ on_close

Spec == Init /\ [][Next]_vars

\* Every HTTP request completes: requests.post always comes back with a
\* response or an exception, so a running call keeps taking its steps.
FairSpec == Spec /\ WF_vars(RequestsPost)

TypeOK ==
    /\ pc \in {"L419", "L420", "L441", "sleeping", "L443", "L444", "L449", "L450",
               "L455", "L456", "exited", "crashed", "interrupted"}
    /\ logged_in \in BOOLEAN
    /\ web_socket_open \in BOOLEAN
    /\ wst \in {"unstarted", "connecting", "idle", "on_message", "teardown",
                "dead", "done"}
    /\ conn \in {"none", "open", "closed"}
    /\ issued \in 0..MaxIssue
    /\ Len(out) <= MaxMsgs

\* ===================================================================
\* Claims
\* ===================================================================
MainLoopFailed == pc = "exited" /\ wst # "unstarted"

\* C1 (as stated): once get_sts_token has failed in a renewal cycle and the
\* main loop has left through sys.exit(1), no further frame is sent on the
\* connection by either thread.
C1_NoFrameAfterRenewalFailure ==
    [][MainLoopFailed => out' = <<>>]_vars

\* C2 (as stated): once the handler has processed a rejected login response
\* the session is over: logged_in is false, the renewal loop takes no further
\* step and nothing more is sent.
C2_RejectedLoginTerminates ==
    [][login_rejected => (~logged_in /\ ~logged_in' /\ pc' = pc /\ out' = <<>>)]_vars

\* the main thread is inside a get_sts_token call
Calling == pc \in {"L419", "L443", "L449"}

\* C3: at the end of a renewal cycle whose refresh-grant credential had an
\* expires_in different from original_expire_time, the scheduler has made
\* exactly one password-grant call, holds the password-grant credential and
\* has set original_expire_time to its expires_in; with an equal expires_in it
\* made no password-grant call and left original_expire_time alone; and every
\* cycle starts with the refresh-token grant on the stored refresh token.
C3_ExpiryChangeReacquiresOnce ==
    /\ pc = "L455" =>
          /\ sts_token = last_cred.access_token
          /\ refresh_token = last_cred.refresh_token
          /\ expire_time = last_cred.expires_in
          /\ IF cyc.rexp # cyc.orig0
                THEN /\ cyc.pcalls = 1
                     /\ last_cred.grant = "password"
                     /\ original_expire_time = last_cred.expires_in
                ELSE /\ cyc.pcalls = 0
                     /\ original_expire_time = cyc.orig0
    /\ pc = "L443" => call.arg = refresh_token /\ call.arg # None /\ cyc.pcalls = 0
    /\ pc = "L449" => call.arg = None /\ cyc.pcalls = 1

C3_Witness ==
    pc = "L455" /\ cyc.rexp # cyc.orig0 /\ cyc.pcalls = 1

\* C4 (as stated): the wait is exactly 0.9 times the stored credential's
\* expires_in.
C4_WaitIsExactlyNineTenths ==
    pc = "sleeping" => sts_token = last_cred.access_token
                       /\ 10 * wait = 9 * last_cred.expires_in

\* C4 (amended): the wait is 0.9 times the stored credential's expires_in
\* truncated to whole seconds.
C4_WaitIsTruncatedNineTenths ==
    pc = "sleeping" =>
        /\ sts_token = last_cred.access_token
        /\ 10 * wait <= 9 * last_cred.expires_in
        /\ 9 * last_cred.expires_in < 10 * (wait + 1)

C4_Witness ==
    /\ pc = "sleeping"
    /\ issued = 3
    /\ last_cred.grant = "password"
    /\ 10 * wait # 9 * last_cred.expires_in

\* C5 (as stated): the scheduler, having read logged_in as true, sends exactly
\* one renewal login frame carrying the stored access token.
C5_RenewalFrameSentWhenLoggedIn ==
    [][(pc = "L456" /\ pc' \in {"L441", "crashed"})
          => out' = <<LoginFrame(sts_token, TRUE)>>]_vars

IsPong(fr) == fr.kind = "Pong"
IsPing(m) == m.Type = "Ping"
Count(q, P(_)) == Cardinality({i \in 1..Len(q) : P(q[i])})
AllPings(f) == \A i \in 1..Len(f) : IsPing(f[i])

\* C6 (as stated): every Ping of an inbound frame, at any position, yields
\* exactly one Pong.
C6_EveryPingAnswered ==
    [][HandlerRunning => Count(out', IsPong) = Count(inbox, IsPing)]_vars

\* C6 (amended): every Ping the handler gets to (not preceded in its frame by
\* a rejected login response) yields exactly one Pong, and a frame of Pings
\* sends only Pongs and changes nothing else.
C6_EveryReachedPingAnswered ==
    [][HandlerRunning =>
          /\ Count(out', IsPong) = Count(Reached(inbox), IsPing)
          /\ AllPings(inbox) =>
                /\ Len(out') = Len(inbox)
                /\ UNCHANGED <<logged_in, web_socket_open, sts_token,
                               refresh_token, expire_time, original_expire_time,
                               conn>>]_vars

C6_Witness ==
    /\ wst = "idle"
    /\ logged_in
    /\ out = <<MarketPriceFrame(ric), PongFrame>>

\* a step of the running get_sts_token call: it received last_status'
PostStep ==
    /\ Calling
    /\ pc' # "interrupted"
    /\ (pc' # pc \/ call' # call \/ last_status' # last_status)

\* C7: a 400/401 answer to a refresh-token grant is followed by a password
\* grant request of the same call; a 400/401 answer to a password grant ends
\* the call with a failure.
C7_FallbackToPasswordOnce ==
    [][(PostStep /\ last_status' \in {400, 401}) =>
          IF call.tok # None
             THEN pc' = pc /\ call'.tok = None /\ call'.arg = call.arg
             ELSE pc' = AfterCall(pc) /\ sts_token' = None /\ call' = NoCall]_vars

C7_Witness ==
    /\ pc = "L443"
    /\ last_status \in {400, 401}
    /\ call.arg # None
    /\ call.tok = None

\* C8: a 403/451 answer ends the call with a failure; no request follows it.
C8_ForbiddenEndsCall ==
    /\ [][(PostStep /\ last_status' \in {403, 451}) =>
            pc' = AfterCall(pc) /\ sts_token' = None /\ call' = NoCall]_vars
    /\ [](last_status \in {403, 451} => ~Calling /\ sts_token = None)

C8_Witness ==
    pc = "L444" /\ last_status \in {403, 451} /\ sts_token = None

\* C9: logged_in is true only after the handler processed a login response
\* with Stream "Open" and Data "Ok".
C9_LoggedInOnlyAfterAck ==
    logged_in => login_acked

C9_Witness ==
    logged_in /\ login_acked /\ pc = "L456"

\* C10 (as stated): logged_in implies that the connection is open.
C10_LoggedInImpliesOpen ==
    logged_in => web_socket_open

IsLogin(fr) == fr.kind = "Login"
IsRenewal(fr) == fr.kind = "Login" /\ fr.Refresh = "false"
IsInitialLogin(fr) == fr.kind = "Login" /\ fr.Refresh = "omitted"
InLoop == pc \in {"L441", "sleeping", "L443", "L444", "L449", "L450", "L455", "L456"}

\* C11: an interrupt arriving anywhere in the renewal loop (asleep, inside
\* get_sts_token, about to send) closes the connection and ends the loop at
\* once, abandoning the sleep in progress; afterwards the main thread takes
\* no step, no token request is made and no login frame is sent.
C11_InterruptStopsLoop ==
    /\ [][(InLoop /\ pc' = "interrupted") =>
            conn' = "closed" /\ wait' = 0 /\ call' = NoCall /\ out' = <<>>]_vars
    /\ [][pc = "interrupted" =>
            /\ pc' = pc /\ call' = call /\ issued' = issued
            /\ last_status' = last_status
            /\ conn' = "closed"
            /\ Count(out', IsLogin) = 0]_vars
    /\ [](pc = "interrupted" => conn = "closed" /\ call = NoCall /\ wait = 0)

C11_Witness ==
    /\ pc = "interrupted"
    /\ wst = "done"
    /\ logged_in
    /\ issued >= 2
    /\ conn = "closed"

\* C12: the WebSocket thread is started only after the initial password-grant
\* call has returned a credential; when that call fails the main thread ends
\* with the connection never created and the renewal loop never entered; and
\* original_expire_time holds the initial credential's expires_in when the
\* first renewal cycle begins.
C12_StartupOrdered ==
    /\ [][(pc = "L420" /\ pc' # pc) =>
            IF sts_token = None
               THEN pc' = "exited" /\ wst' = "unstarted"
               ELSE /\ pc' = "L441" /\ wst = "unstarted" /\ wst' = "connecting"
                    /\ issued = 1
                    /\ last_cred.grant = "password"
                    /\ sts_token = last_cred.access_token
                    /\ original_expire_time' = last_cred.expires_in]_vars
    /\ [](pc \in {"L419", "L420"} =>
            wst = "unstarted" /\ conn = "none" /\ ~web_socket_open)
    /\ [](pc = "L419" => call.arg = None /\ call.tok = None)
    /\ []((pc \in {"exited", "crashed"} /\ issued = 0) =>
            wst = "unstarted" /\ conn = "none" /\ ~web_socket_open)
    /\ [](wst # "unstarted" => issued >= 1 /\ original_expire_time >= 1)
    /\ []((pc = "sleeping" /\ issued = 1) =>
            original_expire_time = last_cred.expires_in)

C12_Witness ==
    /\ pc = "sleeping"
    /\ issued = 1
    /\ wst = "idle"
    /\ original_expire_time = last_cred.expires_in
    /\ original_expire_time = MaxExpiry

\* C13 (as stated): a redirect response with a Location header makes the
\* call send the same grant to the Location URL; one without a Location
\* header makes the call return a failure to its caller.
C13_RedirectFollowedOrFailure ==
    [][(PostStep /\ last_status' \in RedirectCodes) =>
          IF last_location' # NoLocation
             THEN /\ pc' = pc
                  /\ call'.arg = call.arg
                  /\ call'.tok = call.tok
                  /\ call'.url = last_location'
             ELSE /\ pc' = AfterCall(pc)
                  /\ sts_token' = None
                  /\ call' = NoCall]_vars

HandledCodes == {200, 400, 401, 403, 451} \cup RedirectCodes

\* C14 (as stated): a response with any other status makes the call repeat
\* the request: same grant, same refresh token, same endpoint URL as the
\* request that got that status, also when that URL came from a redirect.
C14_RetrySameRequest ==
    [][(PostStep /\ last_status' \in StatusCodes \ HandledCodes) =>
          /\ pc' = pc
          /\ call'.arg = call.arg
          /\ call'.tok = call.tok
          /\ call'.url = call.url]_vars

\* C15: the first frame ever sent is the login frame without a Refresh field,
\* sent alone by on_open when the connection is established (conn leaves
\* "none" with it and never returns); every frame sent afterwards is
\* something else, and every later login frame carries Refresh=false.
C15_OneInitialLoginFirst ==
    /\ [][(conn = "none" /\ out' # <<>>) =>
            /\ wst = "connecting"
            /\ out' = <<LoginFrame(sts_token, FALSE)>>
            /\ conn' = "open"]_vars
    /\ [][conn # "none" =>
            /\ conn' # "none"
            /\ Count(out', IsInitialLogin) = 0
            /\ Count(out', IsLogin) = Count(out', IsRenewal)]_vars
    /\ [][(conn = "none" /\ conn' = "open") =>
            out' = <<LoginFrame(sts_token, FALSE)>>]_vars

C15_Witness ==
    /\ conn = "open"
    /\ issued >= 2
    /\ out = <<LoginFrame(sts_token, TRUE)>>

IsSubscription(fr) == fr = MarketPriceFrame(ric)
IsRequest(fr) == fr.kind = "Request"
OtherRefresh(m) == m.Type = "Refresh" /\ m.Domain # "Login"
AllOtherRefresh(f) == \A i \in 1..Len(f) : OtherRefresh(f[i])

\* C16 (as stated): every accepted login response of an inbound frame sets
\* logged_in and yields exactly one subscription request for ric; no
\* subscription request is sent before an accepted login response was
\* processed; Refresh messages of another domain or without one change
\* nothing and send nothing.
C16_EveryAckSubscribes ==
    /\ [][HandlerRunning =>
            /\ Count(out', IsSubscription) = Count(inbox, Accepted)
            /\ Count(out', IsRequest) = Count(out', IsSubscription)
            /\ Count(inbox, Accepted) > 0 => logged_in'
            /\ AllOtherRefresh(inbox) =>
                  /\ out' = <<>>
                  /\ UNCHANGED <<logged_in, web_socket_open, sts_token,
                                 refresh_token, expire_time,
                                 original_expire_time, conn>>]_vars
    /\ [][Count(out', IsRequest) > 0 => HandlerRunning /\ login_acked']_vars

\* C16 (amended): the same for every accepted login response the handler
\* gets to, i.e. not preceded in its frame by a rejected login response.
C16_EveryReachedAckSubscribes ==
    /\ [][HandlerRunning =>
            /\ Count(out', IsSubscription) = Count(Reached(inbox), Accepted)
            /\ Count(out', IsRequest) = Count(out', IsSubscription)
            /\ Count(Reached(inbox), Accepted) > 0 => logged_in'
            /\ AllOtherRefresh(inbox) =>
                  /\ out' = <<>>
                  /\ UNCHANGED <<logged_in, web_socket_open, sts_token,
                                 refresh_token, expire_time,
                                 original_expire_time, conn>>]_vars
    /\ [][Count(out', IsRequest) > 0 => HandlerRunning /\ login_acked']_vars

C16_Witness ==
    /\ wst = "idle"
    /\ logged_in
    /\ login_acked
    /\ out = <<PongFrame, MarketPriceFrame(ric)>>

\* C17 (as stated): between the main loop's read of logged_in (line 455) and
\* its send (line 456) the connection is not closed and the login is not
\* revoked, so the send happens on an open connection with the login in
\* effect, and a renewal frame is never handed to a closed connection.
C17_ReadAndSendNotSeparated ==
    /\ [][(pc = "L456" /\ pc' = pc) =>
            conn' = conn /\ web_socket_open' = web_socket_open
            /\ login_rejected' = login_rejected]_vars
    /\ [][(pc = "L456" /\ pc' \in {"L441", "crashed"}) =>
            conn = "open" /\ web_socket_open /\ ~login_rejected]_vars
    /\ [][Count(out', IsRenewal) > 0 =>
            conn = "open" /\ web_socket_open /\ ~login_rejected]_vars

\* C18 (as stated): when every request completes, every get_sts_token call
\* comes to an end; no sequence of responses keeps it issuing requests
\* forever.
C18_CallTerminates == Calling ~> ~Calling

\* C19 (as stated): every login frame sent, by on_open or by the main loop,
\* carries a non-empty access token, which is the stored sts_token at the
\* moment of sending and the access token of the credential issued last.
C19_LoginCarriesIssuedToken ==
    [][\A i \in 1..Len(out') :
          IsLogin(out'[i]) =>
              /\ out'[i].AuthenticationToken # None
              /\ out'[i].AuthenticationToken = sts_token
              /\ out'[i].AuthenticationToken = last_cred.access_token]_vars

\* C20 (as stated): the password-grant fallback that follows a 400/401
\* answer to a refresh-token grant is sent to the URL that gave that answer,
\* also when the call had been redirected there.
C20_FallbackKeepsUrl ==
    [][(PostStep /\ last_status' \in {400, 401} /\ call.tok # None) =>
          /\ pc' = pc
          /\ call'.tok = None
          /\ call'.url = call.url]_vars

====
